---- MODULE Spec2Model ----
(***************************************************************************)
(* StocktakeStatus: a str-backed Enum with three members and a __str__     *)
(* override (katana_public_api_client/generated/models/stocktake_status.py)*)
(*                                                                         *)
(* The class object (its member tables) is the only shared state.  Reader  *)
(* threads call StocktakeStatus(value), str(member) and member == other;   *)
(* each call runs in steps, so calls of different readers interleave.      *)
(***************************************************************************)
EXTENDS Naturals, Sequences, FiniteSets, TLC

\* Number of concurrent reader threads.
NumReaders == 2

Readers == 1..NumReaders

(***************************************************************************)
(* Python values.  Every object carries its type and its payload; a str    *)
(* subclass instance (an enum member) carries the str payload in data and  *)
(* the Enum attributes _name_ and _value_ besides.                         *)
(***************************************************************************)
PlainStr(s) == [type |-> "str", data |-> s]

PyNone == [type |-> "NoneType", data |-> "None"]

\* The list ['DRAFT']: unhashable, and equal to no str.
PyList == [type |-> "list", data |-> "['DRAFT']"]

PyBool(b) == [type |-> "bool", data |-> IF b THEN "True" ELSE "False"]

\* Outcome of a call: a returned object or a raised exception.
Returned(x) == [kind |-> "return", value |-> x]

Raised(e) == [kind |-> "raise", exc |-> e]

NoResult == [kind |-> "none"]

\* Enum.__new__ found no member by lookup and goes on to cls._missing_.
Pending == [kind |-> "missing"]

NoCall == [op |-> "none", arg |-> PyNone]

(***************************************************************************)
(* The class statement.                                                    *)
(***************************************************************************)
ClassName == "StocktakeStatus"

\* Plausible slip: a wire value that differs from the member's name.
MemberDefsValueMismatch ==
    << [name |-> "COMPLETED",   value |-> "COMPLETED"],
       [name |-> "DRAFT",       value |-> "DRAFT"],
       [name |-> "IN_PROGRESS", value |-> "IN PROGRESS"] >>

\* Plausible slip: a copy-pasted value, which makes IN_PROGRESS an alias.
MemberDefsDuplicate ==
    << [name |-> "COMPLETED",   value |-> "COMPLETED"],
       [name |-> "DRAFT",       value |-> "DRAFT"],
       [name |-> "IN_PROGRESS", value |-> "DRAFT"] >>

\* The class body, in definition order.
MemberDefs ==
    << [name |-> "COMPLETED",   value |-> "COMPLETED"],
       [name |-> "DRAFT",       value |-> "DRAFT"],
       [name |-> "IN_PROGRESS", value |-> "IN_PROGRESS"] >>

\* A member: str.__new__(cls, value) with _name_ and _value_ set; the
\* member type is str, so _value_ is the plain str str(value).
NewMember(name, value) ==
    [type |-> ClassName, data |-> value, name |-> name, value |-> PlainStr(value)]

EmptyClass ==
    [member_names |-> <<>>, member_map |-> <<>>, value2member_map |-> <<>>]

\* The metaclass turns the body into the member tables: a value seen before
\* makes the name an alias of the first member, otherwise a new member is
\* created and registered under its name and its value.
RECURSIVE BuildClass(_, _)
BuildClass(defs, c) ==
    IF defs = <<>> THEN c
    ELSE LET d == Head(defs)
         IN IF d.value \in DOMAIN c.value2member_map
            THEN BuildClass(Tail(defs),
                     [c EXCEPT !.member_map =
                         (d.name :> c.value2member_map[d.value]) @@ @])
            ELSE BuildClass(Tail(defs),
                     [member_names |-> Append(c.member_names, d.name),
                      member_map |-> (d.name :> NewMember(d.name, d.value))
                                      @@ c.member_map,
                      value2member_map |-> (d.value :> NewMember(d.name, d.value))
                                      @@ c.value2member_map])

ClassDef == BuildClass(MemberDefs, EmptyClass)

\* The members of a class object (aliases are the same member).
Members(c) == {c.member_map[n] : n \in DOMAIN c.member_map}

(***************************************************************************)
(* Behaviour the class takes from its bases, str first and Enum second:    *)
(* equality and hashing are str's, construction is Enum's.                 *)
(***************************************************************************)
IsStr(x) == x.type \in {"str", ClassName}

Hashable(x) == x.type # "list"

\* Enum's own equality, as the class would have without the str base:
\* a member equals only itself.
EqIdentity(a, b) == a = b

\* Plausible slip: comparing the types and not the payloads.
EqByClass(a, b) == a.type = b.type

\* a == b.  Between two strs (members included) str.__eq__ compares the
\* payloads; the other values of the model are equal only to themselves.
PyEq(a, b) ==
    IF IsStr(a) /\ IsStr(b) THEN a.data = b.data ELSE a = b

\* d[key] on a dict keyed by plain strs.
DictGet(d, key) ==
    IF ~Hashable(key) THEN Raised("TypeError")
    ELSE LET hits == {k \in DOMAIN d : PyEq(PlainStr(k), key)}
         IN IF hits # {} THEN Returned(d[CHOOSE k \in hits : TRUE])
            ELSE Raised("KeyError")

\* Plausible slip: the TypeError of an unhashable value is not handled.
EnumNewNoTypeError(c, value) ==
    IF value.type = ClassName THEN Returned(value)
    ELSE LET r == DictGet(c.value2member_map, value)
         IN IF r.kind = "return" THEN r
            ELSE IF r.exc = "KeyError" THEN Pending
            ELSE r

\* Enum.__new__, up to the call of _missing_: a member is returned as it
\* is; otherwise the value is looked up by value, and an unhashable value
\* is searched for among the members one by one.
EnumNew(c, value) ==
    IF value.type = ClassName THEN Returned(value)
    ELSE LET r == DictGet(c.value2member_map, value)
         IN IF r.kind = "return" THEN r
            ELSE IF r.exc = "KeyError" THEN Pending
            ELSE LET found == {n \in DOMAIN c.member_map :
                                  PyEq(c.member_map[n].value, value)}
                 IN IF found # {}
                    THEN Returned(c.member_map[CHOOSE n \in found : TRUE])
                    ELSE Pending

\* Plausible slip: a _missing_ hook that falls back to a default member.
MissingDefault(c, value) == [result |-> c.member_map["DRAFT"], cls |-> c]

\* Plausible slip: a _missing_ hook that makes up a member for an unknown
\* value and registers it, as Flag does for its pseudo-members.
MissingPseudoMember(c, value) ==
    IF IsStr(value)
    THEN [result |-> NewMember(value.data, value.data),
          cls |-> [c EXCEPT !.value2member_map =
                      (value.data :> NewMember(value.data, value.data)) @@ @]]
    ELSE [result |-> PyNone, cls |-> c]

\* cls._missing_(value): the class defines no hook, so Enum's returns None
\* and leaves the class as it is.
Missing(c, value) == [result |-> PyNone, cls |-> c]

\* Enum.__new__ after _missing_: None raises ValueError, a member is
\* returned, anything else is a TypeError.
AfterMissing(result) ==
    IF result = PyNone THEN Raised("ValueError")
    ELSE IF result.type = ClassName THEN Returned(result)
    ELSE Raised("TypeError")

\* StocktakeStatus(value), run to its end on class object c.
Construct(c, value) ==
    LET r == EnumNew(c, value)
    IN IF r.kind = "missing" THEN AfterMissing(Missing(c, value).result)
       ELSE r

(***************************************************************************)
(* __str__: return str(self.value)                                         *)
(***************************************************************************)
\* self.value
LoadValue(self) == self.value

\* Plausible slip: repr() in place of str().
ReprBuiltin(x) == PlainStr("'" \o x.data \o "'")

\* str(x) for the x that __str__ passes: a plain str is returned as it is,
\* any other object is rendered.
StrBuiltin(x) ==
    IF x.type = "str" THEN x ELSE PlainStr(x.data)

DunderStr(self) == StrBuiltin(LoadValue(self))

\* Plausible slip: the intermediate kept in one module-level variable that
\* all calls share.
PushShared(stack, t, x) == [u \in DOMAIN stack |-> x]

\* The evaluated self.value is held on the value stack of the call's own
\* frame until str() is applied to it.
PushValue(stack, t, x) == [stack EXCEPT ![t] = x]

(***************************************************************************)
(* The callers.                                                            *)
(***************************************************************************)
ValidTokens == {"COMPLETED", "DRAFT", "IN_PROGRESS"}

\* Strings outside the three tokens: a lowercase spelling and the empty
\* string.
OtherTokens == {"completed", ""}

\* What a caller passes to StocktakeStatus(...) of its own; a member
\* reaches it as the result of an earlier call (ChainConstruct).
ConstructInputs ==
    {PlainStr(s) : s \in ValidTokens \cup OtherTokens} \cup {PyNone, PyList}

\* What a caller may compare a member with.
EqInputs(c) ==
    Members(c) \cup {PlainStr("DRAFT")}

VARIABLES
    cls,    \* the class object StocktakeStatus: shared by all readers
    pc,     \* pc[t]: where reader t is in its call
    op,     \* op[t]: the operation reader t is calling
    arg,    \* arg[t]: its argument (self, for str and ==)
    arg2,   \* arg2[t]: the right operand of ==
    tmp,    \* tmp[t]: the value stack of the frame of __str__
    ret,    \* ret[t]: the outcome of the call
    hist    \* hist[t]: the call whose result reader t passed on as argument
            \* (a reader passes on the result of a call it made directly)

vars == <<cls, pc, op, arg, arg2, tmp, ret, hist>>

Init ==
    /\ cls = ClassDef
    /\ pc = [t \in Readers |-> "idle"]
    /\ op = [t \in Readers |-> "none"]
    /\ arg = [t \in Readers |-> PyNone]
    /\ arg2 = [t \in Readers |-> PyNone]
    /\ tmp = [t \in Readers |-> PyNone]
    /\ ret = [t \in Readers |-> NoResult]
    /\ hist = [t \in Readers |-> NoCall]

\* Reader t calls StocktakeStatus(value).
CallConstruct(t) ==
    /\ pc[t] = "idle"
    /\ \E value \in ConstructInputs :
          arg' = [arg EXCEPT ![t] = value]
    /\ pc' = [pc EXCEPT ![t] = "new"]
    /\ op' = [op EXCEPT ![t] = "construct"]
    /\ UNCHANGED <<cls, arg2, tmp, ret, hist>>

\* Reader t calls str(v) on a member.
CallStr(t) ==
    /\ pc[t] = "idle"
    /\ \E v \in Members(cls) :
          arg' = [arg EXCEPT ![t] = v]
    /\ pc' = [pc EXCEPT ![t] = "load"]
    /\ op' = [op EXCEPT ![t] = "str"]
    /\ UNCHANGED <<cls, arg2, tmp, ret, hist>>

\* Reader t evaluates v == other: one comparison instruction, carried out
\* by str.__eq__ without a step of Python code in between.
CallEq(t) ==
    /\ pc[t] = "idle"
    /\ \E v \in Members(cls), other \in EqInputs(cls) :
          /\ arg' = [arg EXCEPT ![t] = v]
          /\ arg2' = [arg2 EXCEPT ![t] = other]
          /\ ret' = [ret EXCEPT ![t] = Returned(PyBool(PyEq(v, other)))]
    /\ pc' = [pc EXCEPT ![t] = "done"]
    /\ op' = [op EXCEPT ![t] = "eq"]
    /\ UNCHANGED <<cls, tmp, hist>>

\* Enum.__new__ looks the value up in the class.
New(t) ==
    /\ pc[t] = "new"
    /\ LET r == EnumNew(cls, arg[t])
       IN IF r.kind = "missing"
          THEN /\ pc' = [pc EXCEPT ![t] = "missing"]
               /\ ret' = ret
          ELSE /\ pc' = [pc EXCEPT ![t] = "done"]
               /\ ret' = [ret EXCEPT ![t] = r]
    /\ UNCHANGED <<cls, op, arg, arg2, tmp, hist>>

\* The lookup found nothing: _missing_ is asked, and its answer decides
\* between a member and ValueError.
MissingHook(t) ==
    /\ pc[t] = "missing"
    /\ LET m == Missing(cls, arg[t])
       IN /\ cls' = m.cls
          /\ ret' = [ret EXCEPT ![t] = AfterMissing(m.result)]
    /\ pc' = [pc EXCEPT ![t] = "done"]
    /\ UNCHANGED <<op, arg, arg2, tmp, hist>>

\* __str__ evaluates self.value.
Load(t) ==
    /\ pc[t] = "load"
    /\ tmp' = PushValue(tmp, t, LoadValue(arg[t]))
    /\ pc' = [pc EXCEPT ![t] = "conv"]
    /\ UNCHANGED <<cls, op, arg, arg2, ret, hist>>

\* __str__ applies str() to it and returns.
Conv(t) ==
    /\ pc[t] = "conv"
    /\ ret' = [ret EXCEPT ![t] = Returned(StrBuiltin(tmp[t]))]
    /\ pc' = [pc EXCEPT ![t] = "done"]
    /\ UNCHANGED <<cls, op, arg, arg2, tmp, hist>>

\* Reader t passes the object a call returned to StocktakeStatus(...).
ChainConstruct(t) ==
    /\ pc[t] = "done"
    /\ hist[t] = NoCall
    /\ op[t] \in {"construct", "str"}
    /\ ret[t].kind = "return"
    /\ hist' = [hist EXCEPT ![t] = [op |-> op[t], arg |-> arg[t]]]
    /\ arg' = [arg EXCEPT ![t] = ret[t].value]
    /\ op' = [op EXCEPT ![t] = "construct"]
    /\ pc' = [pc EXCEPT ![t] = "new"]
    /\ ret' = [ret EXCEPT ![t] = NoResult]
    /\ tmp' = [tmp EXCEPT ![t] = PyNone]
    /\ UNCHANGED <<cls, arg2>>

\* Reader t passes the member a construction returned to str(...).
ChainStr(t) ==
    /\ pc[t] = "done"
    /\ hist[t] = NoCall
    /\ op[t] = "construct"
    /\ ret[t].kind = "return"
    /\ hist' = [hist EXCEPT ![t] = [op |-> op[t], arg |-> arg[t]]]
    /\ arg' = [arg EXCEPT ![t] = ret[t].value]
    /\ op' = [op EXCEPT ![t] = "str"]
    /\ pc' = [pc EXCEPT ![t] = "load"]
    /\ ret' = [ret EXCEPT ![t] = NoResult]
    /\ UNCHANGED <<cls, arg2, tmp>>

\* Reader t compares a member with the string str(...) returned for it.
ChainEq(t) ==
    /\ pc[t] = "done"
    /\ hist[t] = NoCall
    /\ op[t] = "str"
    /\ ret[t].kind = "return"
    /\ hist' = [hist EXCEPT ![t] = [op |-> op[t], arg |-> arg[t]]]
    /\ arg2' = [arg2 EXCEPT ![t] = ret[t].value]
    /\ op' = [op EXCEPT ![t] = "eq"]
    /\ ret' = [ret EXCEPT ![t] = Returned(PyBool(PyEq(arg[t], ret[t].value)))]
    /\ tmp' = [tmp EXCEPT ![t] = PyNone]
    /\ UNCHANGED <<cls, pc, arg>>

\* Reader t is through with the outcome and may call again.
Finish(t) ==
    /\ pc[t] = "done"
    /\ pc' = [pc EXCEPT ![t] = "idle"]
    /\ op' = [op EXCEPT ![t] = "none"]
    /\ arg' = [arg EXCEPT ![t] = PyNone]
    /\ arg2' = [arg2 EXCEPT ![t] = PyNone]
    /\ tmp' = [tmp EXCEPT ![t] = PyNone]
    /\ ret' = [ret EXCEPT ![t] = NoResult]
    /\ hist' = [hist EXCEPT ![t] = NoCall]
    /\ UNCHANGED cls

Next ==
    \E t \in Readers :
        \/ CallConstruct(t)
        \/ CallStr(t)
        \/ CallEq(t)
        \/ New(t)
        \/ MissingHook(t)
        \/ Load(t)
        \/ Conv(t)
        \/ ChainConstruct(t)
        \/ ChainStr(t)
        \/ ChainEq(t)
        \/ Finish(t)

Spec == Init /\ [][Next]_vars

(***************************************************************************)
(* Properties.                                                             *)
(***************************************************************************)
\* Reader t has the outcome of a call of operation o.
Done(t, o) == pc[t] = "done" /\ op[t] = o

\* What a call returns when nothing else runs: the operation carried out
\* in one piece on the class as the class statement made it.
Alone(o, a, b) ==
    CASE o = "construct" -> Construct(ClassDef, a)
      [] o = "str" -> Returned(DunderStr(a))
      [] o = "eq" -> Returned(PyBool(PyEq(a, b)))

\* C1: str(v) of a variant v returns the plain string that is exactly the
\* symbolic name of v, and never raises.
StrIsName ==
    \A t \in Readers :
        Done(t, "str") =>
            /\ arg[t].name \in {"COMPLETED", "DRAFT", "IN_PROGRESS"}
            /\ ret[t] = Returned(PlainStr(arg[t].name))

StrIsNameWitness ==
    \E t \in Readers :
        /\ Done(t, "str")
        /\ arg[t].name = "IN_PROGRESS"
        /\ ret[t] = Returned(PlainStr("IN_PROGRESS"))

\* C2: round trip: constructing from the string that str(v) returned for a
\* variant v yields v again.
RoundTrip ==
    \A t \in Readers :
        (Done(t, "construct") /\ hist[t].op = "str") =>
            ret[t] = Returned(hist[t].arg)

RoundTripWitness ==
    \E t \in Readers :
        /\ Done(t, "construct")
        /\ hist[t].op = "str"
        /\ hist[t].arg.name = "COMPLETED"
        /\ arg[t] = PlainStr("COMPLETED")
        /\ ret[t].kind = "return"

\* C3: constructing from a string that is not exactly one of the three
\* tokens raises the one invalid-value error (ValueError) and yields no
\* variant, neither a partial nor a default one.
RejectsOtherStrings ==
    \A t \in Readers :
        (/\ Done(t, "construct")
         /\ arg[t].type = "str"
         /\ arg[t].data \notin {"COMPLETED", "DRAFT", "IN_PROGRESS"}) =>
            ret[t] = Raised("ValueError")

RejectsOtherStringsWitness ==
    \E t, u \in Readers :
        /\ Done(t, "construct") /\ arg[t] = PlainStr("completed")
        /\ ret[t].kind = "raise"
        /\ Done(u, "construct") /\ arg[u] = PlainStr("")
        /\ ret[u].kind = "raise"

\* C4: constructing from one of the three valid tokens s succeeds with the
\* variant named s, and str of that variant is s again.
ValidTokenConstructs ==
    \A t \in Readers :
        /\ (/\ Done(t, "construct")
            /\ arg[t].type = "str"
            /\ arg[t].data \in {"COMPLETED", "DRAFT", "IN_PROGRESS"}) =>
               /\ ret[t].kind = "return"
               /\ ret[t].value.type = ClassName
               /\ ret[t].value.name = arg[t].data
        /\ (/\ Done(t, "str")
            /\ hist[t].op = "construct"
            /\ hist[t].arg.type = "str") =>
               ret[t] = Returned(hist[t].arg)

ValidTokenConstructsWitness ==
    \E t \in Readers :
        /\ Done(t, "str")
        /\ hist[t] = [op |-> "construct", arg |-> PlainStr("DRAFT")]
        /\ arg[t].name = "DRAFT"
        /\ ret[t] = Returned(PlainStr("DRAFT"))

\* The variants a construction from some input of the model can yield.
Constructible(c) ==
    LET outcomes == {Construct(c, x) : x \in ConstructInputs \cup Members(c)}
    IN {r.value : r \in {q \in outcomes : q.kind = "return"}}

\* C5: whatever calls were made, successful or failed, the variants that
\* exist or can be constructed are exactly COMPLETED, DRAFT and IN_PROGRESS,
\* three of them, and the class is as the class statement made it.
ClosedSetOfThree ==
    /\ {m.name : m \in Members(cls)} = {"COMPLETED", "DRAFT", "IN_PROGRESS"}
    /\ Cardinality(Members(cls)) = 3
    /\ DOMAIN cls.value2member_map = {"COMPLETED", "DRAFT", "IN_PROGRESS"}
    /\ Constructible(cls) = Members(cls)
    /\ cls = ClassDef
    /\ \A t \in Readers :
          (ret[t].kind = "return" /\ ret[t].value.type = ClassName) =>
              ret[t].value \in Members(cls)

ClosedSetOfThreeWitness ==
    \E t, u \in Readers :
        /\ Done(t, "construct") /\ arg[t] = PlainStr("completed")
        /\ ret[t].kind = "raise"
        /\ Done(u, "str") /\ hist[u].op = "construct"
        /\ ret[u].kind = "return"

\* C6: two variants are equal exactly when they are the same tag: equality
\* over the variants is reflexive, symmetric and transitive, distinct
\* variants are never equal, and their string tokens differ pairwise.
EqualityIsTag ==
    /\ \A a, b \in Members(cls) :
          /\ PyEq(a, a)
          /\ (PyEq(a, b) <=> (a.name = b.name))
          /\ (PyEq(a, b) => PyEq(b, a))
          /\ (a.name # b.name => DunderStr(a) # DunderStr(b))
    /\ \A a, b, c \in Members(cls) :
          (PyEq(a, b) /\ PyEq(b, c)) => PyEq(a, c)
    /\ \A t \in Readers :
          (Done(t, "eq") /\ arg2[t].type = ClassName) =>
              ret[t] = Returned(PyBool(arg[t].name = arg2[t].name))

EqualityIsTagWitness ==
    \E t, u \in Readers :
        /\ Done(t, "eq") /\ arg[t].name = "DRAFT"
        /\ arg2[t].type = ClassName /\ arg2[t].name = "COMPLETED"
        /\ ret[t] = Returned(PyBool(FALSE))
        /\ Done(u, "eq") /\ arg[u].name = "DRAFT"
        /\ arg2[u].type = ClassName /\ arg2[u].name = "DRAFT"
        /\ ret[u] = Returned(PyBool(TRUE))

\* C7: in every interleaving of the readers' calls each call ends with the
\* outcome (a result or a failure) it has when run alone, and the shared
\* class object is never written.
ReadersDoNotInterfere ==
    /\ cls = ClassDef
    /\ \A t \in Readers :
          pc[t] = "done" => ret[t] = Alone(op[t], arg[t], arg2[t])

ReadersDoNotInterfereWitness ==
    \E t, u \in Readers :
        /\ t # u
        /\ pc[t] = "conv" /\ op[t] = "str"
        /\ Done(u, "str")
        /\ arg[t].name # arg[u].name
        /\ tmp[t] # tmp[u]

\* Every construction that does not return a variant raises ValueError.
OnlyValueError ==
    \A t \in Readers :
        (Done(t, "construct") /\ ret[t].kind # "return") =>
            ret[t] = Raised("ValueError")

\* A construction whose lookup found nothing ends in its next step, with
\* the error handed to its caller.
FailsAtOnce ==
    \A t \in Readers :
        (pc[t] = "missing" /\ pc'[t] # "missing") =>
            (pc'[t] = "done" /\ ret'[t] = Raised("ValueError"))

\* C8: construction has one error kind: every rejected input, a string or
\* not, hashable or not, fails with ValueError, and the failure reaches the
\* caller in the very next step, without a retry or a default variant.
SingleErrorKind == []OnlyValueError /\ [][FailsAtOnce]_vars

SingleErrorKindWitness ==
    \E t, u \in Readers :
        /\ Done(t, "construct") /\ arg[t] = PyList
        /\ ret[t] = Raised("ValueError")
        /\ Done(u, "construct") /\ arg[u] = PyNone
        /\ ret[u] = Raised("ValueError")

\* C9: construction accepts its own output and returns it unchanged, so
\* constructing twice is constructing once; and a variant is equal to the
\* plain string str returns for it, and to no other plain string.
IdempotentAndStrEqual ==
    \A t \in Readers :
        /\ (Done(t, "construct") /\ arg[t].type = ClassName) =>
               ret[t] = Returned(arg[t])
        /\ (Done(t, "construct") /\ hist[t].op = "construct") =>
               /\ arg[t].type = ClassName
               /\ ret[t] = Returned(arg[t])
        /\ (Done(t, "eq") /\ hist[t].op = "str") =>
               /\ arg2[t].type = "str"
               /\ ret[t] = Returned(PyBool(TRUE))
        /\ (Done(t, "eq") /\ arg2[t].type = "str") =>
               ret[t] = Returned(PyBool(arg2[t].data = arg[t].name))

IdempotentAndStrEqualWitness ==
    \E t, u \in Readers :
        /\ Done(t, "eq") /\ hist[t].op = "str"
        /\ arg2[t] = PlainStr("IN_PROGRESS")
        /\ ret[t] = Returned(PyBool(TRUE))
        /\ Done(u, "construct")
        /\ hist[u] = [op |-> "construct", arg |-> PlainStr("DRAFT")]
        /\ ret[u] = Returned(arg[u])

====
